---- MODULE Spec2Model ----
(***************************************************************************)
(* Stream storage of src/proto/streams/store.rs: a Store (slab arena plus  *)
(* StreamId -> key map), the Entry views of find_entry, and the intrusive  *)
(* singly linked List (push / pop / retain / take) whose links live in the *)
(* streams and are reached through a Next capability.                      *)
(***************************************************************************)
EXTENDS Integers, Sequences, FiniteSets, TLC

\* ------------------------------------------------------------------ bounds

\* StreamIds the caller may insert are 1..MaxId.
MaxId == 2

\* Streams held by store 1 in the list specifications.
NumStreams == 4

\* Streams held by store 1 in the specification of two queues.
NumShared == 2

\* Streams held by store 1 where retain's predicate changes its answers.
NumScripted == 3

\* Pushes logged by the FIFO specification.
MaxOps == 4

\* ------------------------------------------------------------- basic values

\* Option::None of an Option<Key>; keys are the slab's indices 0, 1, 2, ...
None == -1

Stores == {1, 2}

\* The store the lists are used with.
ListStore == 1

StreamIds == 1..MaxId

\* A freshly built stream: a tag by which the caller knows it (the id it
\* is built for), and one empty link field per queue.
Stream(tag) == [val |-> tag, next_a |-> None, next_b |-> None]

\* The two Next capabilities, one per link field.
Caps == {"A", "B"}

\* Next::next
next(N, stream) == IF N = "A" THEN stream.next_a ELSE stream.next_b

\* Next::set_next
set_next(N, stream, key) ==
    IF N = "A" THEN [stream EXCEPT !.next_a = key]
               ELSE [stream EXCEPT !.next_b = key]

\* Next::take_next: the link read, and the stream with the link cleared.
take_next(N, stream) ==
    [ret |-> next(N, stream), stream |-> set_next(N, stream, None)]

\* ------------------------------------------------------------------- Store

EmptyMap == [x \in {} |-> None]

\* Store::new
Store_new == [slab |-> EmptyMap, ids |-> EmptyMap]

\* slab::Slab::insert with no slot ever removed: the new key is the length.
slab_insert(slab, val) ==
    LET key == Cardinality(DOMAIN slab)
    IN  [key |-> key, slab |-> (key :> val) @@ slab]

\* HashMap::insert: the binding is written, the old value is returned.
ids_insert(ids, id, key) ==
    [old |-> IF id \in DOMAIN ids THEN ids[id] ELSE None,
     ids |-> (id :> key) @@ ids]

\* A mutant of Store::insert: the id is bound to the previous slot's key.
insert_off_by_one(st, id, val) ==
    LET s == slab_insert(st.slab, val)
        m == ids_insert(st.ids, id, IF s.key > 0 THEN s.key - 1 ELSE s.key)
    IN  [store |-> [slab |-> s.slab, ids |-> m.ids],
         key   |-> s.key,
         panic |-> m.old # None]

\* A mutant of Store::insert: the result of HashMap::insert is not asserted.
insert_no_assert(st, id, val) ==
    LET s == slab_insert(st.slab, val)
        m == ids_insert(st.ids, id, s.key)
    IN  [store |-> [slab |-> s.slab, ids |-> m.ids],
         key   |-> s.key,
         panic |-> FALSE]

\* A mutant of Store::insert: the id is looked up first, and a bound id
\* fails the call before anything is written.
insert_check_first(st, id, val) ==
    IF id \in DOMAIN st.ids
    THEN [store |-> st, key |-> None, panic |-> TRUE]
    ELSE LET s == slab_insert(st.slab, val)
         IN  [store |-> [slab |-> s.slab, ids |-> (id :> s.key) @@ st.ids],
              key   |-> s.key,
              panic |-> FALSE]

\* Store::insert: the slab insert, then the binding; the assertion fails
\* after both when the id was bound.
insert(st, id, val) ==
    LET s == slab_insert(st.slab, val)
        m == ids_insert(st.ids, id, s.key)
    IN  [store |-> [slab |-> s.slab, ids |-> m.ids],
         key   |-> s.key,
         panic |-> m.old # None]

\* A mutant of Store::find_mut: the cursor is given the key of the first
\* slot, whatever the id is bound to.
find_mut_first_slot(st, id) == IF id \in DOMAIN st.ids THEN 0 ELSE None

\* Store::find_mut: the key of the cursor, or None.
find_mut(st, id) == IF id \in DOMAIN st.ids THEN st.ids[id] ELSE None

\* Store::find_entry: one probe of the id map.
find_entry(st, id) ==
    IF id \in DOMAIN st.ids
    THEN [kind |-> "Occupied", id |-> id]
    ELSE [kind |-> "Vacant", id |-> id]

\* OccupiedEntry::key
OccupiedEntry_key(st, e) == st.ids[e.id]

\* OccupiedEntry::get
OccupiedEntry_get(st, e) == st.slab[st.ids[e.id]]

\* A mutant of VacantEntry::insert: the binding is made before the slab
\* insert, with the key the slab held last.
VacantEntry_insert_stale(st, e, val) ==
    LET s == slab_insert(st.slab, val)
        k == IF s.key > 0 THEN s.key - 1 ELSE s.key
    IN  [store |-> [slab |-> s.slab, ids |-> (e.id :> k) @@ st.ids],
         key   |-> k,
         panic |-> FALSE]

\* VacantEntry::insert: the slab insert, then the binding at the probed slot.
VacantEntry_insert(st, e, val) ==
    LET s == slab_insert(st.slab, val)
    IN  [store |-> [slab |-> s.slab, ids |-> (e.id :> s.key) @@ st.ids],
         key   |-> s.key,
         panic |-> FALSE]

\* The orders in which HashMap::values may yield the bound keys.
Orders(S) ==
    {o \in [1..Cardinality(S) -> S] : \A i, j \in DOMAIN o : i # j => o[i] # o[j]}

\* A mutant of Store::for_each: the callback is always given the first slot.
for_each_first_slot(st, order) == [i \in DOMAIN order |-> 0]

\* Store::for_each with a recording callback: the slots the callback is
\* applied to, in the order the id map yields them.
for_each(st, order) == [i \in DOMAIN order |-> st.ids[order[i]]]

\* -------------------------------------------------------------------- List

\* List.indices = None; Some(Indices { head, tail }) is a record of two keys.
NoIndices == [head |-> None, tail |-> None]

Indices(h, t) == [head |-> h, tail |-> t]

\* List::new
List_new == NoIndices

\* List::is_empty
is_empty(indices) == indices = NoIndices

\* A mutant of List::take: the pair is copied out and self keeps it.
take_copy(indices) == [self |-> indices, ret |-> indices]

\* List::take: self is left empty, the returned list holds the old pair.
take(indices) == [self |-> NoIndices, ret |-> indices]

\* A mutant of List::push: the tail is linked through the other queue's
\* link field.
push_other_link(N, indices, slab, key, dbg) ==
    LET M == IF N = "A" THEN "B" ELSE "A"
    IN  IF dbg /\ next(N, slab[key]) # None
        THEN [indices |-> indices, slab |-> slab, panic |-> TRUE]
        ELSE IF indices # NoIndices
        THEN [indices |-> [indices EXCEPT !.tail = key],
              slab    |-> [slab EXCEPT ![indices.tail] = set_next(M, @, key)],
              panic   |-> FALSE]
        ELSE [indices |-> Indices(key, key), slab |-> slab, panic |-> FALSE]

\* A mutant of List::push: the old tail is linked to the new key, the tail
\* is not advanced.
push_keep_tail(N, indices, slab, key, dbg) ==
    IF dbg /\ next(N, slab[key]) # None
    THEN [indices |-> indices, slab |-> slab, panic |-> TRUE]
    ELSE IF indices # NoIndices
    THEN [indices |-> indices,
          slab    |-> [slab EXCEPT ![indices.tail] = set_next(N, @, key)],
          panic   |-> FALSE]
    ELSE [indices |-> Indices(key, key), slab |-> slab, panic |-> FALSE]

\* List::push. dbg is cfg(debug_assertions): the debug assertion looks at
\* the pushed stream's own link only.
push(N, indices, slab, key, dbg) ==
    IF dbg /\ next(N, slab[key]) # None
    THEN [indices |-> indices, slab |-> slab, panic |-> TRUE]
    ELSE IF indices # NoIndices
    THEN [indices |-> [indices EXCEPT !.tail = key],
          slab    |-> [slab EXCEPT ![indices.tail] = set_next(N, @, key)],
          panic   |-> FALSE]
    ELSE [indices |-> Indices(key, key), slab |-> slab, panic |-> FALSE]

\* A mutant of List::pop: the old head's link is read but not cleared, and
\* the head is not advanced past a second element.
pop_no_advance(N, indices, slab) ==
    IF indices = NoIndices
    THEN [ret |-> None, indices |-> indices, slab |-> slab, panic |-> FALSE]
    ELSE IF indices.head = indices.tail
    THEN [ret |-> indices.head, indices |-> NoIndices, slab |-> slab,
          panic |-> FALSE]
    ELSE [ret |-> indices.head,
          indices |-> [indices EXCEPT !.head = indices.tail],
          slab |-> slab, panic |-> FALSE]

\* A mutant of List::pop: the head's link is unwrapped on an empty list
\* too, which fails.
pop_empty_unwrap(N, indices, slab) ==
    IF indices = NoIndices
    THEN [ret |-> None, indices |-> indices, slab |-> slab, panic |-> TRUE]
    ELSE IF indices.head = indices.tail
    THEN [ret |-> indices.head, indices |-> NoIndices, slab |-> slab,
          panic |-> next(N, slab[indices.head]) # None]
    ELSE LET t == take_next(N, slab[indices.head])
         IN  [ret |-> indices.head,
              indices |-> [indices EXCEPT !.head = t.ret],
              slab |-> [slab EXCEPT ![indices.head] = t.stream],
              panic |-> t.ret = None]

\* List::pop: ret is the key of the returned cursor, None for nothing.
pop(N, indices, slab) ==
    IF indices = NoIndices
    THEN [ret |-> None, indices |-> indices, slab |-> slab, panic |-> FALSE]
    ELSE IF indices.head = indices.tail
    THEN IF next(N, slab[indices.head]) # None
         THEN [ret |-> None, indices |-> indices, slab |-> slab,
               panic |-> TRUE]
         ELSE [ret |-> indices.head, indices |-> NoIndices, slab |-> slab,
               panic |-> FALSE]
    ELSE LET t == take_next(N, slab[indices.head])
             s == [slab EXCEPT ![indices.head] = t.stream]
         IN  IF t.ret = None
             THEN [ret |-> None, indices |-> indices, slab |-> s,
                   panic |-> TRUE]
             ELSE [ret |-> indices.head,
                   indices |-> [indices EXCEPT !.head = t.ret],
                   slab |-> s, panic |-> FALSE]

\* The loop of List::retain from the state (idxs, prev, curr); rej is the
\* set of keys whose stream the predicate rejects, calls the keys the
\* predicate has been applied to so far.
RECURSIVE retain_loop(_, _, _, _, _, _, _)
retain_loop(N, rej, idxs, slab, prev, curr, calls) ==
    LET seen == Append(calls, curr)
    IN  IF curr \notin rej
        THEN \* Element is retained, walk to the next
             IF next(N, slab[curr]) # None
             THEN retain_loop(N, rej, idxs, slab, curr,
                              next(N, slab[curr]), seen)
             ELSE [indices |-> idxs, slab |-> slab, calls |-> seen]
        ELSE \* Element is dropped
             LET t  == take_next(N, slab[curr])
                 s1 == [slab EXCEPT ![curr] = t.stream]
             IN  IF prev # None
                 THEN LET s2 == [s1 EXCEPT ![prev] = set_next(N, @, t.ret)]
                      IN  IF t.ret = None
                          THEN [indices |-> [idxs EXCEPT !.tail = prev],
                                slab |-> s2, calls |-> seen]
                          ELSE retain_loop(N, rej, idxs, s2, prev, curr, seen)
                 ELSE IF t.ret # None
                      THEN retain_loop(N, rej, [idxs EXCEPT !.head = t.ret],
                                       s1, prev, t.ret, seen)
                      ELSE [indices |-> NoIndices, slab |-> s1,
                            calls |-> seen]

\* A mutant of List::retain: a dropped head is not unlinked, the pass ends
\* at the first rejected head.
retain_stop_at_head(N, indices, slab, rej) ==
    IF indices = NoIndices \/ indices.head \in rej
    THEN [indices |-> indices, slab |-> slab, calls |-> << >>]
    ELSE retain_loop(N, rej, indices, slab, None, indices.head, << >>)

\* A mutant of List::retain: the test of the predicate's answer is
\* inverted, accepted streams are dropped and rejected ones kept.
retain_inverted(N, indices, slab, rej) ==
    IF indices = NoIndices
    THEN [indices |-> indices, slab |-> slab, calls |-> << >>]
    ELSE retain_loop(N, (DOMAIN slab) \ rej, indices, slab, None,
                     indices.head, << >>)

\* List::retain
retain(N, indices, slab, rej) ==
    IF indices = NoIndices
    THEN [indices |-> indices, slab |-> slab, calls |-> << >>]
    ELSE retain_loop(N, rej, indices, slab, None, indices.head, << >>)

\* The loop of List::retain with an FnMut predicate that may answer
\* differently each time it is called: answers[i] is what it returns at
\* its i-th call (TRUE to keep). returned is FALSE when the loop has reached
\* neither a break nor a return by the time the answers are used up.
RECURSIVE retain_fnmut_loop(_, _, _, _, _, _, _)
retain_fnmut_loop(N, answers, idxs, slab, prev, curr, calls) ==
    IF Len(calls) = Len(answers)
    THEN [indices |-> idxs, slab |-> slab, calls |-> calls,
          returned |-> FALSE]
    ELSE
    LET seen == Append(calls, curr)
    IN  IF answers[Len(seen)]
        THEN \* Element is retained, walk to the next
             IF next(N, slab[curr]) # None
             THEN retain_fnmut_loop(N, answers, idxs, slab, curr,
                                    next(N, slab[curr]), seen)
             ELSE [indices |-> idxs, slab |-> slab, calls |-> seen,
                   returned |-> TRUE]
        ELSE \* Element is dropped
             LET t  == take_next(N, slab[curr])
                 s1 == [slab EXCEPT ![curr] = t.stream]
             IN  IF prev # None
                 THEN LET s2 == [s1 EXCEPT ![prev] = set_next(N, @, t.ret)]
                      IN  IF t.ret = None
                          THEN [indices |-> [idxs EXCEPT !.tail = prev],
                                slab |-> s2, calls |-> seen,
                                returned |-> TRUE]
                          ELSE retain_fnmut_loop(N, answers, idxs, s2, prev,
                                                 curr, seen)
                 ELSE IF t.ret # None
                      THEN retain_fnmut_loop(N, answers,
                                             [idxs EXCEPT !.head = t.ret],
                                             s1, prev, t.ret, seen)
                      ELSE [indices |-> NoIndices, slab |-> s1,
                            calls |-> seen, returned |-> TRUE]

\* The loop of a mutant of List::retain: the link of a dropped stream with
\* a kept predecessor is read with next, not taken.
RECURSIVE retain_fnmut_loop_keep_link(_, _, _, _, _, _, _)
retain_fnmut_loop_keep_link(N, answers, idxs, slab, prev, curr, calls) ==
    IF Len(calls) = Len(answers)
    THEN [indices |-> idxs, slab |-> slab, calls |-> calls,
          returned |-> FALSE]
    ELSE
    LET seen == Append(calls, curr)
    IN  IF answers[Len(seen)]
        THEN IF next(N, slab[curr]) # None
             THEN retain_fnmut_loop_keep_link(N, answers, idxs, slab, curr,
                                              next(N, slab[curr]), seen)
             ELSE [indices |-> idxs, slab |-> slab, calls |-> seen,
                   returned |-> TRUE]
        ELSE IF prev # None
             THEN LET nx == next(N, slab[curr])
                      s2 == [slab EXCEPT ![prev] = set_next(N, @, nx)]
                  IN  IF nx = None
                      THEN [indices |-> [idxs EXCEPT !.tail = prev],
                            slab |-> s2, calls |-> seen, returned |-> TRUE]
                      ELSE retain_fnmut_loop_keep_link(N, answers, idxs, s2,
                                                       prev, curr, seen)
             ELSE LET t  == take_next(N, slab[curr])
                      s1 == [slab EXCEPT ![curr] = t.stream]
                  IN  IF t.ret # None
                      THEN retain_fnmut_loop_keep_link(
                               N, answers, [idxs EXCEPT !.head = t.ret],
                               s1, prev, t.ret, seen)
                      ELSE [indices |-> NoIndices, slab |-> s1,
                            calls |-> seen, returned |-> TRUE]

\* A mutant of List::retain with an FnMut predicate.
retain_fnmut_keep_link(N, indices, slab, answers) ==
    IF indices = NoIndices
    THEN [indices |-> indices, slab |-> slab, calls |-> << >>,
          returned |-> TRUE]
    ELSE retain_fnmut_loop_keep_link(N, answers, indices, slab, None,
                                     indices.head, << >>)

\* List::retain with an FnMut predicate.
retain_fnmut(N, indices, slab, answers) ==
    IF indices = NoIndices
    THEN [indices |-> indices, slab |-> slab, calls |-> << >>,
          returned |-> TRUE]
    ELSE retain_fnmut_loop(N, answers, indices, slab, None, indices.head,
                           << >>)

\* The keys met from head along the links of capability N, up to the tail,
\* an empty link or a key met before.
RECURSIVE walk(_, _, _, _, _)
walk(N, slab, curr, tail, seen) ==
    IF curr = None \/ curr \in seen
    THEN << >>
    ELSE IF curr = tail
    THEN << curr >>
    ELSE << curr >> \o walk(N, slab, next(N, slab[curr]), tail,
                            seen \cup {curr})

\* The keys of a list in list order.
chain(N, indices, slab) ==
    IF indices = NoIndices THEN << >>
    ELSE walk(N, slab, indices.head, indices.tail, {})

Range(seq) == {seq[i] : i \in DOMAIN seq}

\* The keys returned by popping the list until it is empty; a failed pop
\* ends the drain with None.
RECURSIVE drain(_, _, _)
drain(N, indices, slab) ==
    IF indices = NoIndices THEN << >>
    ELSE LET r == pop(N, indices, slab)
         IN  IF r.panic THEN << None >>
             ELSE << r.ret >> \o drain(N, r.indices, r.slab)

\* ------------------------------------------------------------------- state

VARIABLES
    store,      \* store[s]: the Store s, its slab and its ids
    entry,      \* the Entry find_entry returned and the caller still holds
    lists,      \* lists[L]: the indices of the List L
    ret,        \* the last call and what it returned
    panicked,   \* an assertion or unwrap has failed
    debug,      \* cfg(debug_assertions) of the build
    pushed,     \* the keys pushed onto list A, in call order
    popped      \* the keys popped from list A, in call order

vars == << store, entry, lists, ret, panicked, debug, pushed, popped >>

\* Lists A and other are used with capability A, list B with capability B;
\* other is the list that List::take on A returns.
ListNames == {"A", "B", "other"}

cap(L) == IF L = "B" THEN "B" ELSE "A"

NoEntry == [kind |-> "None", id |-> 0, store |-> 0]

slab == store[ListStore].slab

Keys == DOMAIN slab

members(L) == Range(chain(cap(L), lists[L], slab))

\* The condition of push's debug assertion for the stream at key k: its
\* link for the queue is empty. A tail or sole member passes it.
Pushable(L, k) == next(cap(L), slab[k]) = None

\* The store after Store::insert of ids 1..n, each with a fresh stream.
RECURSIVE Populated(_)
Populated(n) ==
    IF n = 0 THEN Store_new
    ELSE insert(Populated(n - 1), n, Stream(n)).store

\* Store::new and List::new for every store and list.
InitStore ==
    /\ store = [s \in Stores |-> Store_new]
    /\ entry = NoEntry
    /\ lists = [L \in ListNames |-> List_new]
    /\ ret = [op |-> "new"]
    /\ panicked = FALSE
    /\ debug \in BOOLEAN
    /\ pushed = << >>
    /\ popped = << >>

\* As InitStore, after NumStreams streams have been inserted into the
\* store the lists are used with.
InitList ==
    /\ store = [s \in Stores |->
                   IF s = ListStore THEN Populated(NumStreams) ELSE Store_new]
    /\ entry = NoEntry
    /\ lists = [L \in ListNames |-> List_new]
    /\ ret = [op |-> "new"]
    /\ panicked = FALSE
    /\ debug \in BOOLEAN
    /\ pushed = << >>
    /\ popped = << >>

\* As InitList, with NumShared streams in the store.
InitMulti ==
    /\ store = [s \in Stores |->
                   IF s = ListStore THEN Populated(NumShared) ELSE Store_new]
    /\ entry = NoEntry
    /\ lists = [L \in ListNames |-> List_new]
    /\ ret = [op |-> "new"]
    /\ panicked = FALSE
    /\ debug \in BOOLEAN
    /\ pushed = << >>
    /\ popped = << >>

\* As InitList, with NumScripted streams in the store.
InitFnMut ==
    /\ store = [s \in Stores |->
                   IF s = ListStore THEN Populated(NumScripted) ELSE Store_new]
    /\ entry = NoEntry
    /\ lists = [L \in ListNames |-> List_new]
    /\ ret = [op |-> "new"]
    /\ panicked = FALSE
    /\ debug \in BOOLEAN
    /\ pushed = << >>
    /\ popped = << >>

\* ----------------------------------------------------------- store actions

\* Store::insert(id, Stream(id)) on store s.
Insert(s, id) ==
    /\ ~panicked /\ entry = NoEntry
    /\ LET r == insert(store[s], id, Stream(id))
       IN  /\ store' = [store EXCEPT ![s] = r.store]
           /\ panicked' = r.panic
           /\ ret' = [op |-> "insert", store |-> s, id |-> id,
                      key |-> IF r.panic THEN None ELSE r.key]
    /\ UNCHANGED << entry, lists, debug, pushed, popped >>

\* Store::find_mut(id) on store s.
FindMut(s, id) ==
    /\ ~panicked /\ entry = NoEntry
    /\ ret' = [op |-> "find_mut", store |-> s, id |-> id,
               key |-> find_mut(store[s], id)]
    /\ UNCHANGED << store, entry, lists, panicked, debug, pushed, popped >>

\* Store::find_entry(id) on store s; the Entry borrows the store until the
\* caller uses or drops it.
FindEntry(s, id) ==
    /\ ~panicked /\ entry = NoEntry
    /\ LET e == find_entry(store[s], id)
       IN  /\ entry' = [kind |-> e.kind, id |-> e.id, store |-> s]
           /\ ret' = [op |-> "find_entry", store |-> s, id |-> id,
                      kind |-> e.kind,
                      key |-> IF e.kind = "Occupied"
                              THEN OccupiedEntry_key(store[s], e) ELSE None]
    /\ UNCHANGED << store, lists, panicked, debug, pushed, popped >>

\* VacantEntry::insert(Stream(id)) on the Entry held for id.
VacantInsert ==
    /\ ~panicked /\ entry.kind = "Vacant"
    /\ LET s == entry.store
           r == VacantEntry_insert(store[s], entry, Stream(entry.id))
       IN  /\ store' = [store EXCEPT ![s] = r.store]
           /\ panicked' = r.panic
           /\ ret' = [op |-> "vacant_insert", store |-> s, id |-> entry.id,
                      key |-> r.key]
    /\ entry' = NoEntry
    /\ UNCHANGED << lists, debug, pushed, popped >>

\* The Entry held is dropped (an Occupied one after its stream was read).
EntryDrop ==
    /\ ~panicked /\ entry # NoEntry
    /\ entry' = NoEntry
    /\ ret' = [op |-> "entry_drop", store |-> entry.store, id |-> entry.id]
    /\ UNCHANGED << store, lists, panicked, debug, pushed, popped >>

\* Store::for_each on store s with a callback that records the slot it is
\* given.
ForEach(s) ==
    /\ ~panicked /\ entry = NoEntry
    /\ \E order \in Orders(DOMAIN store[s].ids) :
          ret' = [op |-> "for_each", store |-> s,
                  visited |-> for_each(store[s], order)]
    /\ UNCHANGED << store, entry, lists, panicked, debug, pushed, popped >>

\* ------------------------------------------------------------ list actions

\* List::push::<cap(L)> of the stream at key k onto list L.
PushCall(L, k) ==
    /\ ~panicked /\ entry = NoEntry
    /\ LET r == push(cap(L), lists[L], slab, k, debug)
       IN  /\ lists' = [lists EXCEPT ![L] = r.indices]
           /\ store' = [store EXCEPT ![ListStore].slab = r.slab]
           /\ panicked' = r.panic
           /\ ret' = [op |-> "push", list |-> L, key |-> k]
    /\ UNCHANGED << entry, debug >>

\* List::pop::<cap(L)> on list L.
PopCall(L) ==
    /\ ~panicked /\ entry = NoEntry
    /\ LET r == pop(cap(L), lists[L], slab)
       IN  /\ lists' = [lists EXCEPT ![L] = r.indices]
           /\ store' = [store EXCEPT ![ListStore].slab = r.slab]
           /\ panicked' = r.panic
           /\ ret' = [op |-> "pop", list |-> L, key |-> r.ret]
    /\ UNCHANGED << entry, debug >>

\* List::retain::<cap(L)> on list L with a predicate rejecting the streams
\* at the keys rej.
RetainCall(L, rej) ==
    /\ ~panicked /\ entry = NoEntry
    /\ LET r == retain(cap(L), lists[L], slab, rej)
       IN  /\ lists' = [lists EXCEPT ![L] = r.indices]
           /\ store' = [store EXCEPT ![ListStore].slab = r.slab]
           /\ ret' = [op |-> "retain", list |-> L, rej |-> rej,
                      before |-> chain(cap(L), lists[L], slab),
                      calls |-> r.calls]
    /\ UNCHANGED << entry, panicked, debug, pushed, popped >>

\* other = list.take() on list A; the model holds one detached list, so the
\* call is made once the previous one has been drained.
Take ==
    /\ ~panicked /\ entry = NoEntry
    /\ is_empty(lists["other"])
    /\ LET r == take(lists["A"])
       IN  /\ lists' = [lists EXCEPT !["A"] = r.self, !["other"] = r.ret]
           /\ ret' = [op |-> "take", list |-> "A", was |-> lists["A"]]
    /\ UNCHANGED << store, entry, panicked, debug, pushed, popped >>

\* A push of a stream that is in no list of the queue's capability and
\* passes push's debug assertion; pushes of members are made by PushAny.
Push(L) ==
    \E k \in Keys :
        /\ \A M \in ListNames : cap(M) = cap(L) => k \notin members(M)
        /\ Pushable(L, k)
        /\ PushCall(L, k)
        /\ UNCHANGED << pushed, popped >>

\* A push of any stream of the store, linked or not.
PushAny(L) ==
    \E k \in Keys : PushCall(L, k) /\ UNCHANGED << pushed, popped >>

Pop(L) == PopCall(L) /\ UNCHANGED << pushed, popped >>

\* The predicate is asked about members only: rej is the set of members
\* it rejects.
Retain(L) == \E rej \in SUBSET members(L) : RetainCall(L, rej)

\* A push of a stream that is in no list of the queue's capability; its
\* own link may be set or not.
PushNonMember(L) ==
    \E k \in Keys :
        /\ \A M \in ListNames : cap(M) = cap(L) => k \notin members(M)
        /\ PushCall(L, k)
        /\ UNCHANGED << pushed, popped >>

\* The links of capability N from curr lead to an empty link without
\* meeting a key twice.
RECURSIVE ends(_, _, _, _)
ends(N, slab_, curr, seen) ==
    IF curr = None THEN TRUE
    ELSE IF curr \in seen THEN FALSE
    ELSE ends(N, slab_, next(N, slab_[curr]), seen \cup {curr})

\* List::retain on a list whose links do not cycle; on a cycle of kept
\* streams the loop of retain never returns, and the caller makes no
\* such call here.
RetainAcyclic(L) ==
    /\ is_empty(lists[L]) \/ ends(cap(L), slab, lists[L].head, {})
    /\ Retain(L)

\* List::retain::<cap(L)> on list L with an FnMut predicate; the predicate
\* has two answers more in store than the list has streams.
RetainFnMut(L) ==
    /\ ~panicked /\ entry = NoEntry
    /\ \E answers \in [1..(Cardinality(members(L)) + 2) -> BOOLEAN] :
          LET r == retain_fnmut(cap(L), lists[L], slab, answers)
          IN  /\ lists' = [lists EXCEPT ![L] = r.indices]
              /\ store' = [store EXCEPT ![ListStore].slab = r.slab]
              /\ ret' = [op |-> "retain", list |-> L, answers |-> answers,
                         before |-> chain(cap(L), lists[L], slab),
                         calls |-> r.calls, returned |-> r.returned]
    /\ UNCHANGED << entry, panicked, debug, pushed, popped >>

\* Push and pop on list A with every call's key logged; the streams
\* pushed are not in the queue.
FifoPush ==
    /\ Len(pushed) < MaxOps
    /\ \E k \in Keys :
          /\ \A M \in ListNames : cap(M) = "A" => k \notin members(M)
          /\ Pushable("A", k)
          /\ PushCall("A", k)
          /\ pushed' = Append(pushed, k)
          /\ popped' = popped

FifoPop ==
    /\ PopCall("A")
    /\ pushed' = pushed
    /\ popped' = IF ret'.key = None THEN popped ELSE Append(popped, ret'.key)

\* ---------------------------------------------------------- specifications

StoreInsert == \E s \in Stores, id \in StreamIds : Insert(s, id)

StoreFindMut == \E s \in Stores, id \in StreamIds : FindMut(s, id)

StoreFindEntry == \E s \in Stores, id \in StreamIds : FindEntry(s, id)

StoreForEach == \E s \in Stores : ForEach(s)

PushA == Push("A")

PopA == Pop("A")

RetainA == Retain("A")

PushB == Push("B")

PopB == Pop("B")

RetainB == Retain("B")

PopOther == Pop("other")

PushAnyA == PushAny("A")

PushNonMemberA == PushNonMember("A")

RetainAcyclicA == RetainAcyclic("A")

RetainFnMutA == RetainFnMut("A")

\* The store and its entries, with list A in use on store 1.
NextStore ==
    \/ StoreInsert
    \/ StoreFindMut
    \/ StoreFindEntry
    \/ VacantInsert
    \/ EntryDrop
    \/ StoreForEach
    \/ PushA
    \/ PopA

SpecStore == InitStore /\ [][NextStore]_vars

\* One queue and the list detached from it by take.
Next ==
    \/ PushA
    \/ PopA
    \/ RetainA
    \/ Take
    \/ PopOther

Spec == InitList /\ [][Next]_vars

\* Two queues with two capabilities over the same streams.
NextMulti ==
    \/ PushA
    \/ PopA
    \/ RetainA
    \/ PushB
    \/ PopB
    \/ RetainB

SpecMulti == InitMulti /\ [][NextMulti]_vars

\* Pushes and pops on one queue, logged.
NextFifo == FifoPush \/ FifoPop

SpecFifo == InitList /\ [][NextFifo]_vars

\* A caller that pushes any stream, whether or not it is in the queue.
NextMisuse == PushAnyA \/ PopA

SpecMisuse == InitList /\ [][NextMisuse]_vars

\* A caller that pushes streams that are in no list, in either build.
NextNonMember ==
    \/ PushNonMemberA
    \/ PopA
    \/ RetainAcyclicA
    \/ Take
    \/ PopOther

SpecNonMember == InitList /\ [][NextNonMember]_vars

\* One queue whose retain is given predicates that change their answers.
NextFnMut == PushA \/ PopA \/ RetainFnMutA

SpecFnMut == InitFnMut /\ [][NextFnMut]_vars

\* ------------------------------------------------------------------ claims

IsPrefix(s, t) == Len(s) <= Len(t) /\ SubSeq(t, 1, Len(s)) = s

\* The subsequence of seq whose keys are not in rej.
RECURSIVE accepted(_, _)
accepted(seq, rej) ==
    IF seq = << >> THEN << >>
    ELSE IF Head(seq) \in rej THEN accepted(Tail(seq), rej)
    ELSE << Head(seq) >> \o accepted(Tail(seq), rej)

\* C1. FIFO order: the keys popped from a list that started empty are, in
\* order, the keys pushed onto it; a pop returns nothing only when every
\* pushed key has been popped; and once as many keys have been popped as
\* were pushed (n pushes, n pops) the popped keys are exactly the pushed
\* ones and the list is empty.
C1_FifoOrder ==
    /\ ~panicked
    /\ IsPrefix(popped, pushed)
    /\ (Len(popped) = Len(pushed)) <=> is_empty(lists["A"])
    /\ (Len(popped) = Len(pushed)) => popped = pushed
    /\ (ret.op = "pop" /\ ret.key = None) => Len(popped) = Len(pushed)

C1_Witness ==
    /\ Len(pushed) = NumStreams
    /\ Cardinality(Range(pushed)) = NumStreams
    /\ popped = pushed
    /\ ret.op = "pop"
    /\ is_empty(lists["A"])

\* C2. retain correctness: after List::retain on list A with any set of
\* rejected keys, draining the list by pop yields exactly the keys of the
\* list before the call that the predicate accepts, in their order.
C2_RetainCorrect ==
    (ret.op = "retain" /\ ret.list = "A") =>
        drain("A", lists["A"], slab) = accepted(ret.before, ret.rej)

\* C3. retain with a predicate that rejects every element of a non-empty
\* list leaves the list empty, having applied the predicate once to each
\* element in list order.
C3_RetainRejectAll ==
    (ret.op = "retain" /\ ret.before # << >>
        /\ Range(ret.before) \subseteq ret.rej) =>
        /\ is_empty(lists[ret.list])
        /\ ret.calls = ret.before

C3_Witness ==
    /\ ret.op = "retain"
    /\ Len(ret.before) = NumStreams
    /\ Range(ret.before) \subseteq ret.rej
    /\ is_empty(lists["A"])

\* The queue steps of the last call: its operation and list.
Called(op, L) == ret'.op = op /\ ret'.list = L

\* The link of every stream for capability N is left as it was.
LinksKept(N) ==
    \A k \in Keys : next(N, slab'[k]) = next(N, slab[k])

\* C4. Multi-queue independence: a push, pop or retain on list A leaves
\* list B's (head, tail), every stream's B-link and so B's order unchanged,
\* and a push, pop or retain on list B leaves list A's alike.
C4_MultiQueueIndependence ==
    [][ \A op \in {"push", "pop", "retain"} :
          /\ Called(op, "A") =>
                /\ lists'["B"] = lists["B"]
                /\ LinksKept("B")
                /\ chain("B", lists'["B"], slab') = chain("B", lists["B"], slab)
          /\ Called(op, "B") =>
                /\ lists'["A"] = lists["A"]
                /\ LinksKept("A")
                /\ chain("A", lists'["A"], slab') = chain("A", lists["A"], slab)
      ]_vars

\* The stream just popped from the head of list A is still the second
\* element of list B, and the other stream is still in both lists.
C4_Witness ==
    /\ ret.op = "pop" /\ ret.list = "A" /\ ret.key # None
    /\ Len(chain("B", lists["B"], slab)) = 2
    /\ chain("B", lists["B"], slab)[2] = ret.key
    /\ chain("A", lists["A"], slab) = << chain("B", lists["B"], slab)[1] >>

\* C5. Duplicate identifier rejection: Store::insert(id, stream) fails its
\* assertion, returning no cursor, exactly when id is already bound in that
\* store, whatever the other store binds; a successful insert binds id to
\* the returned key in its own store and leaves the other store unchanged.
C5_DuplicateIdRejected ==
    [][ \A s \in Stores, id \in StreamIds :
          (ret'.op = "insert" /\ ret'.store = s /\ ret'.id = id) =>
            /\ panicked' <=> id \in DOMAIN store[s].ids
            /\ panicked' => ret'.key = None
            /\ ~panicked' =>
                  /\ ret'.key # None
                  /\ store'[s].ids[id] = ret'.key
                  /\ ret'.key \notin DOMAIN store[s].slab
            /\ \A o \in Stores \ {s} : store'[o] = store[o]
      ]_vars

\* An id bound in store 2 was inserted into store 1 twice: the second
\* insert into store 1 failed.
C5_Witness ==
    /\ panicked /\ ret.op = "insert" /\ ret.store = 1
    /\ ret.id \in DOMAIN store[2].ids
    /\ store[2].ids[ret.id] = 0

\* C6. In a debug build a List::push of a stream that is a member of the
\* list fails its assertion and leaves the list and the links unchanged.
C6_RepushAsserts ==
    [][ (debug /\ Called("push", "A") /\ ret'.key \in members("A")) =>
            /\ panicked'
            /\ lists' = lists
            /\ store' = store
      ]_vars

\* C7. take() ownership transfer: other = list.take() leaves list A empty
\* and gives other the pair A had (so other is empty iff A was), changing
\* no stream; draining other then yields A's old contents in order. A push
\* onto A afterwards starts a chain at the pushed key when A is empty and
\* appends to A's chain otherwise, and no push, pop or retain on A changes
\* what draining other yields.
C7_TakeTransfers ==
    [][ /\ ret'.op = "take" =>
              /\ is_empty(lists'["A"])
              /\ lists'["other"] = lists["A"]
              /\ is_empty(lists'["other"]) <=> is_empty(lists["A"])
              /\ store' = store
              /\ drain("A", lists'["other"], slab')
                    = chain("A", lists["A"], slab)
        /\ Called("push", "A") =>
              /\ ~panicked'
              /\ IF is_empty(lists["A"])
                 THEN lists'["A"] = Indices(ret'.key, ret'.key)
                 ELSE lists'["A"].head = lists["A"].head
              /\ chain("A", lists'["A"], slab')
                    = Append(chain("A", lists["A"], slab), ret'.key)
              /\ drain("A", lists'["A"], slab')
                    = chain("A", lists'["A"], slab')
        /\ \A op \in {"push", "pop", "retain"} :
              Called(op, "A") =>
                  /\ lists'["other"] = lists["other"]
                  /\ drain("A", lists'["other"], slab')
                        = drain("A", lists["other"], slab)
      ]_vars

\* Two streams were detached by take and a third was then pushed onto the
\* emptied list.
C7_Witness ==
    /\ ret.op = "push" /\ ret.list = "A"
    /\ Len(drain("A", lists["other"], slab)) = 2
    /\ chain("A", lists["A"], slab) = << ret.key >>

\* C8. for_each coverage: on a store built by successful inserts, whatever
\* queues its streams are in, for_each applies the callback to every
\* occupied slot exactly once and to nothing else.
C8_ForEachCoverage ==
    ret.op = "for_each" =>
        LET v == ret.visited
            S == DOMAIN store[ret.store].slab
        IN  /\ Len(v) = Cardinality(S)
            /\ \A k \in S : Cardinality({i \in DOMAIN v : v[i] = k}) = 1

\* for_each has swept a store whose streams are both linked into list A.
C8_Witness ==
    /\ ret.op = "for_each" /\ ret.store = ListStore
    /\ Len(ret.visited) = MaxId
    /\ Len(chain("A", lists["A"], slab)) = MaxId

\* C9. Entry single-probe equivalence: find_entry(id) leaves the store as
\* it is and returns Vacant when id is unbound and Occupied, with the key
\* id is bound to, when it is bound; Vacant::insert then leaves the store
\* as Store::insert(id, stream) would have from the same state, without
\* failing, and returns the same key.
C9_EntryEquivalence ==
    [][ \A s \in Stores, id \in StreamIds :
          /\ (ret'.op = "find_entry" /\ ret'.store = s /\ ret'.id = id) =>
                /\ store' = store
                /\ IF id \in DOMAIN store[s].ids
                   THEN ret'.kind = "Occupied" /\ ret'.key = store[s].ids[id]
                   ELSE ret'.kind = "Vacant" /\ entry'.kind = "Vacant"
          /\ (ret'.op = "vacant_insert" /\ ret'.store = s /\ ret'.id = id) =>
                LET r == insert(store[s], id, Stream(id))
                IN  /\ id \notin DOMAIN store[s].ids
                    /\ ~r.panic /\ ~panicked'
                    /\ store'[s] = r.store
                    /\ ret'.key = r.key
                    /\ \A o \in Stores \ {s} : store'[o] = store[o]
      ]_vars

\* Vacant::insert has added a second stream to a store.
C9_Witness ==
    /\ ret.op = "vacant_insert"
    /\ ret.key = 1
    /\ Cardinality(DOMAIN store[ret.store].ids) = 2

\* C10. Store invariant: while no call has failed, every bound StreamId is
\* bound to the key of an occupied slab slot, and that slot holds the
\* stream that was inserted under that id.
C10_StoreInvariant ==
    ~panicked =>
        \A s \in Stores : \A id \in DOMAIN store[s].ids :
            /\ store[s].ids[id] \in DOMAIN store[s].slab
            /\ store[s].slab[store[s].ids[id]].val = id

\* Ids 2 and 1 were inserted in that order, one of them through an Entry,
\* and looked up again.
C10_Witness ==
    /\ ~panicked /\ ret.op = "find_mut" /\ ret.key = 1
    /\ DOMAIN store[1].ids = {1, 2}
    /\ store[1].ids[1] = 1 /\ store[1].ids[2] = 0

\* A list is empty, or its head and tail are slots of the store, the links
\* from head reach tail without meeting a stream twice, and tail's link is
\* empty.
WellFormed(L) ==
    \/ is_empty(lists[L])
    \/ /\ lists[L].head \in Keys /\ lists[L].tail \in Keys
       /\ LET c == chain(cap(L), lists[L], slab)
          IN  c # << >> /\ c[Len(c)] = lists[L].tail
       /\ next(cap(L), slab[lists[L].tail]) = None

\* C11. List structural invariant: after any sequence of pushes of streams
\* not in the queue, pops, retains and takes, list A and the list detached
\* from it are well formed.
C11_ListWellFormed == \A L \in {"A", "other"} : WellFormed(L)


\* C12. Absence on pop: List::pop on an empty list returns nothing, leaves
\* every list and every stream (so every link) as it was, and does not fail.
C12_PopEmpty ==
    [][ \A L \in ListNames :
          (Called("pop", L) /\ is_empty(lists[L])) =>
              /\ ret'.key = None
              /\ is_empty(lists'[L])
              /\ lists' = lists
              /\ \A N \in Caps : LinksKept(N)
              /\ store' = store
              /\ ~panicked'
      ]_vars

\* A pop on the emptied list A returned nothing while two streams were
\* linked in the list detached from it.
C12_Witness ==
    /\ ret.op = "pop" /\ ret.list = "A" /\ ret.key = None
    /\ ~panicked
    /\ is_empty(lists["A"])
    /\ Len(chain("A", lists["other"], slab)) = 2

\* The key of the slot holding the stream built for id, None when the store
\* holds no such stream: the key the insert of id returned.
InsertedKey(st, id) ==
    IF \E k \in DOMAIN st.slab : st.slab[k].val = id
    THEN CHOOSE k \in DOMAIN st.slab : st.slab[k].val = id
    ELSE None

\* C13. Lookup by id: in a new store no id has a stream; a successful
\* Store::insert or Vacant::insert of id puts the stream for id, absent
\* before, at the key it returns, and no other call adds or moves a stream;
\* find_mut(id) returns nothing when id was never inserted and otherwise
\* the key its insert returned, and changes neither store.
C13_LookupById ==
    /\ \A s \in Stores, id \in StreamIds : InsertedKey(store[s], id) = None
    /\ [][ \A s \in Stores, id \in StreamIds :
             /\ (ret'.op = "find_mut" /\ ret'.store = s /\ ret'.id = id) =>
                   /\ ret'.key = InsertedKey(store[s], id)
                   /\ store' = store
             /\ (~panicked' /\ ret'.op \in {"insert", "vacant_insert"}
                   /\ ret'.store = s /\ ret'.id = id) =>
                   /\ InsertedKey(store[s], id) = None
                   /\ ret'.key # None
                   /\ InsertedKey(store'[s], id) = ret'.key
             /\ (~panicked' /\ ~(ret'.op \in {"insert", "vacant_insert"}
                                 /\ ret'.store = s /\ ret'.id = id)) =>
                   InsertedKey(store'[s], id) = InsertedKey(store[s], id)
         ]_vars

\* Id 2 was inserted after id 1 and is found at the second slot, or an id
\* never inserted into the other store is not found there.
C13_Witness ==
    /\ ~panicked /\ ret.op = "find_mut"
    /\ \/ ret.store = 1 /\ ret.id = 2 /\ ret.key = 1
       \/ /\ ret.store = 2 /\ ret.key = None
          /\ ret.id \in DOMAIN store[1].ids
    /\ DOMAIN store[1].ids = {1, 2}
    /\ store[1].ids[2] = 1

Last(seq) == seq[Len(seq)]

\* C14. Missing link is fatal: a pop whose head is not the recorded tail
\* and has an empty link fails; a retain whose pass stops at a stream with
\* an empty link that is not the recorded tail fails.
C14_MissingLinkFatal ==
    [][ \A L \in ListNames :
          /\ (Called("pop", L) /\ ~is_empty(lists[L])
                /\ lists[L].head # lists[L].tail
                /\ next(cap(L), slab[lists[L].head]) = None) => panicked'
          /\ (Called("retain", L) /\ ret'.calls # << >>
                /\ Last(ret'.calls) # lists[L].tail) => panicked'
      ]_vars

\* C15. retain is a single forward pass: over a list [k1..kn] the predicate
\* is applied to k1, k2, ... in that order, to no stream twice, the stream
\* examined after a dropped one being the one the dropped one linked to.
C15_RetainSinglePass ==
    (ret.op = "retain") =>
        /\ IsPrefix(ret.calls, ret.before)
        /\ \A i, j \in DOMAIN ret.calls : i # j => ret.calls[i] # ret.calls[j]

\* C16. retain terminates: on every list reached by pushes, pops and
\* retains, and for every predicate, whether or not its answer for a stream
\* changes between calls, the loop of List::retain reaches a break or a
\* return, after at most as many calls of the predicate as the list has
\* streams; the list it is called on is well formed.
C16_RetainTerminates ==
    /\ WellFormed("A")
    /\ (ret.op = "retain") =>
          /\ ret.returned
          /\ Len(ret.calls) <= Len(ret.before)

\* A retain on a list of all the store's streams has returned after its
\* predicate rejected a stream and then accepted the same stream.
C16_Witness ==
    /\ ret.op = "retain" /\ ret.returned
    /\ Len(ret.before) = NumScripted
    /\ \E i \in 1..(Len(ret.calls) - 1) :
          /\ ret.calls[i] = ret.calls[i + 1]
          /\ ~ret.answers[i] /\ ret.answers[i + 1]

\* C17. Unlinked-when-absent invariant: after any pushes of non-members,
\* pops and retains, every stream of the store that is in neither list A
\* nor the list detached from it has an empty A-link, and so passes push's
\* debug assertion.
C17_UnlinkedWhenAbsent ==
    \A k \in Keys :
        (k \notin members("A") /\ k \notin members("other")) =>
            next("A", slab[k]) = None

\* The abstract FIFO sequence of list A: the pushed keys less those popped.
Abstract == SubSeq(pushed, Len(popped) + 1, Len(pushed))

\* The keys reached from the head of list L along the links, to the first
\* empty link.
Reachable(L) ==
    IF is_empty(lists[L]) THEN << >>
    ELSE walk(cap(L), slab, lists[L].head, None, {})

\* C18. Queue refinement: under any interleaving of pushes of non-members
\* (streams popped earlier among them) and pops on list A, the keys reached
\* from head along the links are the abstract sequence, is_empty() holds
\* exactly when that sequence is empty, a push appends its key at the end,
\* and a pop returns and removes the first key, or returns nothing when the
\* sequence is empty.
C18_QueueRefinement ==
    /\ Reachable("A") = Abstract
    /\ [][ /\ Reachable("A")' = Abstract'
           /\ is_empty(lists'["A"]) <=> (Abstract' = << >>)
           /\ Called("push", "A") =>
                 /\ ~panicked'
                 /\ Reachable("A")' = Append(Reachable("A"), ret'.key)
           /\ Called("pop", "A") =>
                 /\ ~panicked'
                 /\ IF Reachable("A") = << >>
                    THEN ret'.key = None /\ Reachable("A")' = << >>
                    ELSE /\ ret'.key = Head(Reachable("A"))
                         /\ Reachable("A")' = Tail(Reachable("A"))
         ]_vars

\* A stream popped earlier was pushed again behind another stream.
C18_Witness ==
    /\ ret.op = "push" /\ ret.list = "A"
    /\ ret.key \in Range(popped)
    /\ Len(Reachable("A")) >= 2
    /\ Last(Reachable("A")) = ret.key

\* C19. retain with a predicate that accepts every element leaves the
\* (head, tail) of every list and every stream, so every link, as they
\* were, on the empty list as on lists of every length.
C19_RetainAcceptAll ==
    [][ \A L \in ListNames :
          (Called("retain", L) /\ ret'.rej = {}) =>
              /\ lists' = lists
              /\ LinksKept(cap(L))
              /\ store' = store
      ]_vars

\* A retain that accepts everything has returned on a list of all the
\* store's streams.
C19_Witness ==
    /\ ret.op = "retain" /\ ret.rej = {}
    /\ Len(ret.before) = NumStreams
    /\ Len(chain("A", lists["A"], slab)) = NumStreams

\* Distinct bound ids have distinct keys, every occupied slot is bound to
\* exactly one id, and there are as many bound ids as occupied slots.
Lockstep(st) ==
    /\ \A i, j \in DOMAIN st.ids : i # j => st.ids[i] # st.ids[j]
    /\ \A k \in DOMAIN st.slab :
          Cardinality({i \in DOMAIN st.ids : st.ids[i] = k}) = 1
    /\ Cardinality(DOMAIN st.ids) = Cardinality(DOMAIN st.slab)

\* C20 as claimed. Id mapping and arena stay in lockstep while no call has
\* failed, and a Store::insert that fails on a duplicate id leaves the
\* binding of that id and the arena as they were before the call.
C20_LockstepFailedInsertKeeps ==
    /\ \A s \in Stores : Lockstep(store[s])
    /\ [][ /\ ~panicked' => \A s \in Stores : Lockstep(store'[s])
           /\ \A s \in Stores, id \in StreamIds :
                 (panicked' /\ ret'.op = "insert" /\ ret'.store = s
                    /\ ret'.id = id) =>
                     /\ store'[s].ids[id] = store[s].ids[id]
                     /\ store'[s].slab = store[s].slab
         ]_vars

\* C20 as amended. Id mapping and arena stay in lockstep while no call has
\* failed; a Store::insert that fails on a duplicate id has by then added
\* the new stream to the arena and bound the id to the new key: the slot
\* the id was bound to keeps its stream but is bound to no id, every other
\* binding and slot is as before, and the arena holds one more occupied
\* slot than there are bound ids.
C20_LockstepFailedInsertRebinds ==
    /\ \A s \in Stores : Lockstep(store[s])
    /\ [][ /\ ~panicked' => \A s \in Stores : Lockstep(store'[s])
           /\ \A s \in Stores, id \in StreamIds :
                 (panicked' /\ ret'.op = "insert" /\ ret'.store = s
                    /\ ret'.id = id) =>
                     LET old == store[s].ids[id]
                         new == Cardinality(DOMAIN store[s].slab)
                     IN  /\ DOMAIN store'[s].slab
                               = DOMAIN store[s].slab \cup {new}
                         /\ new \notin DOMAIN store[s].slab
                         /\ store'[s].slab[new] = Stream(id)
                         /\ \A k \in DOMAIN store[s].slab :
                               store'[s].slab[k] = store[s].slab[k]
                         /\ store'[s].ids = [store[s].ids EXCEPT ![id] = new]
                         /\ \A i \in DOMAIN store'[s].ids :
                               store'[s].ids[i] # old
                         /\ Cardinality(DOMAIN store'[s].slab)
                               = Cardinality(DOMAIN store'[s].ids) + 1
                         /\ \A o \in Stores \ {s} : store'[o] = store[o]
         ]_vars

\* The second insert of id 1 into a store holding ids 1 and 2 has failed:
\* three slots are occupied, two ids are bound, and slot 0 is unbound.
C20_Witness ==
    /\ panicked /\ ret.op = "insert"
    /\ DOMAIN store[ret.store].ids = {1, 2}
    /\ DOMAIN store[ret.store].slab = {0, 1, 2}
    /\ store[ret.store].ids[1] = 2
    /\ store[ret.store].ids[2] = 1
====
